---- MODULE Spec2Model ----
(***************************************************************************)
(* A model of backend/main.py: the /match handler match_jobs(candidate,    *)
(* jobs).  Job records live in a heap of dictionaries; a call holds        *)
(* references to them, so a write of job["match_score"] is visible to      *)
(* every holder of the record.  A dictionary is a record with a presence   *)
(* flag per optional key.  Each call is a small program counter machine    *)
(* whose steps are the points at which another thread can run.             *)
(***************************************************************************)
EXTENDS Integers, Sequences, FiniteSets, TLC

VARIABLES heap, heap0, candidate, jobs, pc, i, score, matched_jobs, keys,
          result, first, calls, writer

vars == <<heap, heap0, candidate, jobs, pc, i, score, matched_jobs, keys,
          result, first, calls, writer>>

(* ------------------------------ bounds --------------------------------- *)

\* longest job list of a single call
MaxJobs == 3
\* longest candidate skill list
MaxSkills == 2
\* number of job records in the heap when two calls run concurrently
MaxConcurrentJobs == 3
\* number of job records two concurrent calls share
MaxSharedJobs == 3
\* how many times a caller invokes match_jobs on the same objects
MaxCalls == 2

Calls == {1, 2}

(* ------------------------------ inputs --------------------------------- *)

Skills == {"python", "sql"}

SeqsUpTo(S, n) == UNION {[1..k -> S] : k \in 0..n}

\* a match_score left on a job record by an earlier, unrelated request
StaleScore == MaxSkills + 1

RequiredSkillLists ==
  {<<"python", "go">>, <<"sql", "python">>, <<"python", "python">>}

JobRecord(has, req, hasScore) ==
  [has_required_skills |-> has, required_skills |-> req,
   has_match_score |-> hasScore,
   match_score |-> IF hasScore THEN StaleScore ELSE 0,
   title |-> "job"]

InputJobs ==
  {JobRecord(TRUE, r, m) : r \in RequiredSkillLists, m \in BOOLEAN}
    \cup {JobRecord(FALSE, <<>>, m) : m \in BOOLEAN}

CandidateRecord(has, sk) == [has_skills |-> has, skills |-> sk]

InputCandidates ==
  {CandidateRecord(TRUE, s) : s \in SeqsUpTo(Skills, MaxSkills)}
    \cup {CandidateRecord(FALSE, <<>>)}

ConcurrentJobs ==
  {JobRecord(TRUE, <<"python", "go">>, FALSE),
   JobRecord(TRUE, <<"sql", "python">>, FALSE),
   JobRecord(FALSE, <<>>, FALSE)}

ConcurrentCandidates ==
  {CandidateRecord(TRUE, <<"python">>),
   CandidateRecord(TRUE, <<"python", "sql">>),
   CandidateRecord(FALSE, <<>>)}

(* --------------------------- pure functions ---------------------------- *)

\* skill in job["required_skills"], on a list
Membership(skill, required) ==
  \E k \in DOMAIN required : required[k] = skill

Range(s) == {s[k] : k \in DOMAIN s}

\* mutant: the score counts distinct matching skills
SumDistinct(skills, required) ==
  Cardinality({s \in Range(skills) : Membership(s, required)})

\* sum(skill in job["required_skills"] for skill in candidate["skills"])
RECURSIVE SumMembership(_, _)
SumMembership(skills, required) ==
  IF skills = <<>> THEN 0
  ELSE (IF Membership(Head(skills), required) THEN 1 ELSE 0)
       + SumMembership(Tail(skills), required)

\* mutant: jobs with one match are dropped
RetainedAboveOne(s) == s > 1

\* if score > 0
Retained(s) == s > 0

Reverse(s) == [p \in 1..Len(s) |-> s[Len(s) + 1 - p]]

\* x goes behind every index whose key is at least (descending) its own
InsertDescending(order, x, ks) ==
  LET p == Cardinality({e \in Range(order) : ks[e] >= ks[x]})
  IN SubSeq(order, 1, p) \o <<x>> \o SubSeq(order, p + 1, Len(order))

InsertAscending(order, x, ks) ==
  LET p == Cardinality({e \in Range(order) : ks[e] <= ks[x]})
  IN SubSeq(order, 1, p) \o <<x>> \o SubSeq(order, p + 1, Len(order))

RECURSIVE OrderDescending(_, _)
OrderDescending(n, ks) ==
  IF n = 0 THEN <<>> ELSE InsertDescending(OrderDescending(n - 1, ks), n, ks)

RECURSIVE OrderAscending(_, _)
OrderAscending(n, ks) ==
  IF n = 0 THEN <<>> ELSE InsertAscending(OrderAscending(n - 1, ks), n, ks)

\* mutant: an ascending stable sort whose result is reversed
SortAscendingThenReverse(js, ks) ==
  Reverse([p \in 1..Len(js) |-> js[OrderAscending(Len(js), ks)[p]]])

\* list.sort(key=..., reverse=True): descending by key, equal keys keep
\* their order
SortReverse(js, ks) ==
  [p \in 1..Len(js) |-> js[OrderDescending(Len(js), ks)[p]]]

(* ------------------------------- steps --------------------------------- *)

\* mutant: one module-level matched_jobs list shared by every invocation
SharedFrame(c) == 1

\* matched_jobs = [] makes a list local to the invocation
Frame(c) == c

\* the loop goes on with the job at index k, or falls through to the sort
AfterJob(c, k) == IF k > Len(jobs[c]) THEN "sort" ELSE "for"

job(c) == jobs[c][i[c]]

\* mutant: the score is added to the score already on the record
WriteAccumulated(j, s) ==
  [heap EXCEPT ![j].has_match_score = TRUE,
               ![j].match_score = heap[j].match_score + s]

\* mutant: the score is stored under the wrong key
WriteWrongKey(j, s) ==
  [heap EXCEPT ![j].has_match_score = TRUE, ![j].match_score = s,
               ![j].required_skills = <<>>]

\* job["match_score"] = score
WriteMatchScore(j, s) ==
  [heap EXCEPT ![j].has_match_score = TRUE, ![j].match_score = s]

\* mutant: the response carries the score this call computed, not the record
ReturnedOwnScore(c, j) ==
  SumMembership(candidate[c].skills, heap[j].required_skills)

\* the match_score the response shows is read from the returned record
ReturnedScore(c, j) == heap[j].match_score

\* mutant: match_score is assigned before the test of the score
ScoreJobWriteAlways(c) ==
  /\ pc[c] = "for"
  /\ candidate[c].has_skills
  /\ candidate[c].skills = <<>> \/ heap[job(c)].has_required_skills
  /\ LET s == SumMembership(candidate[c].skills, heap[job(c)].required_skills)
     IN /\ score' = [score EXCEPT ![c] = s]
        /\ heap' = WriteMatchScore(job(c), s)
        /\ writer' = [writer EXCEPT ![job(c)] = c]
        /\ IF Retained(s)
           THEN pc' = [pc EXCEPT ![c] = "write"] /\ i' = i
           ELSE /\ i' = [i EXCEPT ![c] = i[c] + 1]
                /\ pc' = [pc EXCEPT ![c] = AfterJob(c, i[c] + 1)]
  /\ UNCHANGED <<heap0, candidate, jobs, matched_jobs, keys, result, first,
                 calls>>

\* candidate["skills"] is looked up when the generator is made; with an empty
\* skill list job["required_skills"] is never evaluated
ScoreJob(c) ==
  /\ pc[c] = "for"
  /\ candidate[c].has_skills
  /\ candidate[c].skills = <<>> \/ heap[job(c)].has_required_skills
  /\ LET s == SumMembership(candidate[c].skills, heap[job(c)].required_skills)
     IN /\ score' = [score EXCEPT ![c] = s]
        /\ IF Retained(s)
           THEN pc' = [pc EXCEPT ![c] = "write"] /\ i' = i
           ELSE /\ i' = [i EXCEPT ![c] = i[c] + 1]
                /\ pc' = [pc EXCEPT ![c] = AfterJob(c, i[c] + 1)]
  /\ UNCHANGED <<heap, heap0, candidate, jobs, matched_jobs, keys, result,
                 first, calls, writer>>

\* candidate["skills"] raises KeyError
KeyErrorSkills(c) ==
  /\ pc[c] = "for"
  /\ ~candidate[c].has_skills
  /\ pc' = [pc EXCEPT ![c] = "KeyError"]
  /\ UNCHANGED <<heap, heap0, candidate, jobs, i, score, matched_jobs, keys,
                 result, first, calls, writer>>

\* mutant: every job is validated before the first one is scored
KeyErrorAnyJob(c) ==
  /\ pc[c] = "for"
  /\ candidate[c].has_skills
  /\ candidate[c].skills # <<>>
  /\ \E p \in i[c]..Len(jobs[c]) : ~heap[jobs[c][p]].has_required_skills
  /\ pc' = [pc EXCEPT ![c] = "KeyError"]
  /\ UNCHANGED <<heap, heap0, candidate, jobs, i, score, matched_jobs, keys,
                 result, first, calls, writer>>

\* job["required_skills"] raises KeyError at the first skill tested
KeyErrorRequiredSkills(c) ==
  /\ pc[c] = "for"
  /\ candidate[c].has_skills
  /\ candidate[c].skills # <<>>
  /\ ~heap[job(c)].has_required_skills
  /\ pc' = [pc EXCEPT ![c] = "KeyError"]
  /\ UNCHANGED <<heap, heap0, candidate, jobs, i, score, matched_jobs, keys,
                 result, first, calls, writer>>

\* job["match_score"] = score; matched_jobs.append(job)
WriteScore(c) ==
  /\ pc[c] = "write"
  /\ heap' = WriteMatchScore(job(c), score[c])
  /\ writer' = [writer EXCEPT ![job(c)] = c]
  /\ matched_jobs' = [matched_jobs EXCEPT
                        ![Frame(c)] = Append(matched_jobs[Frame(c)], job(c))]
  /\ i' = [i EXCEPT ![c] = i[c] + 1]
  /\ pc' = [pc EXCEPT ![c] = AfterJob(c, i[c] + 1)]
  /\ UNCHANGED <<heap0, candidate, jobs, score, keys, result, first, calls>>

\* the sort calls key(x) = x["match_score"] once per element, in list order
SortKey(c) ==
  /\ pc[c] = "sort"
  /\ Len(keys[c]) < Len(matched_jobs[Frame(c)])
  /\ keys' = [keys EXCEPT ![c] =
                Append(keys[c],
                       heap[matched_jobs[Frame(c)][Len(keys[c]) + 1]].match_score)]
  /\ UNCHANGED <<heap, heap0, candidate, jobs, pc, i, score, matched_jobs,
                 result, first, calls, writer>>

\* matched_jobs.sort(key=..., reverse=True), once every key is known
Sort(c) ==
  /\ pc[c] = "sort"
  /\ Len(keys[c]) = Len(matched_jobs[Frame(c)])
  /\ matched_jobs' = [matched_jobs EXCEPT
                        ![Frame(c)] = SortReverse(matched_jobs[Frame(c)], keys[c])]
  /\ pc' = [pc EXCEPT ![c] = "return"]
  /\ UNCHANGED <<heap, heap0, candidate, jobs, i, score, keys, result, first,
                 calls, writer>>

\* return {"matches": matched_jobs}: the records themselves are returned
Return(c) ==
  /\ pc[c] = "return"
  /\ LET r == [p \in 1..Len(matched_jobs[Frame(c)]) |->
                 [job |-> matched_jobs[Frame(c)][p],
                  match_score |-> ReturnedScore(c, matched_jobs[Frame(c)][p])]]
     IN /\ result' = [result EXCEPT ![c] = r]
        /\ first' = IF calls[c] = 1 THEN [first EXCEPT ![c] = r] ELSE first
  /\ pc' = [pc EXCEPT ![c] = "done"]
  /\ UNCHANGED <<heap, heap0, candidate, jobs, i, score, matched_jobs, keys,
                 calls, writer>>

Running(c) == pc[c] \in {"for", "write", "sort", "return"}

\* the caller invokes match_jobs again with the same candidate and the same
\* job records, as the previous call left them; a repeated call is made
\* while no other call is running
CallAgain(c) ==
  /\ pc[c] = "done"
  /\ calls[c] < MaxCalls
  /\ \A d \in Calls \ {c} : ~Running(d)
  /\ calls' = [calls EXCEPT ![c] = calls[c] + 1]
  /\ heap0' = [heap0 EXCEPT ![c] = heap]
  /\ matched_jobs' = [matched_jobs EXCEPT ![Frame(c)] = <<>>]
  /\ keys' = [keys EXCEPT ![c] = <<>>]
  /\ result' = [result EXCEPT ![c] = <<>>]
  /\ i' = [i EXCEPT ![c] = 1]
  /\ pc' = [pc EXCEPT ![c] = AfterJob(c, 1)]
  /\ UNCHANGED <<heap, candidate, jobs, score, first, writer>>

Next ==
  \E c \in Calls :
    \/ ScoreJob(c)
    \/ KeyErrorSkills(c)
    \/ KeyErrorRequiredSkills(c)
    \/ WriteScore(c)
    \/ SortKey(c)
    \/ Sort(c)
    \/ Return(c)
    \/ CallAgain(c)

(* --------------------------- initial states ---------------------------- *)

FromTo(a, b) == [p \in 1..(b - a + 1) |-> a + p - 1]

\* the state when the calls in `active` have run matched_jobs = []
Entered(h, cand, js, active) ==
  /\ heap = h
  /\ heap0 = [c \in Calls |-> h]
  /\ candidate = cand
  /\ jobs = js
  /\ pc = [c \in Calls |->
             IF c \in active THEN (IF js[c] = <<>> THEN "sort" ELSE "for")
             ELSE "idle"]
  /\ i = [c \in Calls |-> 1]
  /\ score = [c \in Calls |-> 0]
  /\ matched_jobs = [c \in Calls |-> <<>>]
  /\ keys = [c \in Calls |-> <<>>]
  /\ result = [c \in Calls |-> <<>>]
  /\ first = [c \in Calls |-> <<>>]
  /\ calls = [c \in Calls |-> 1]
  /\ writer = [j \in DOMAIN h |-> 0]

\* one request
Init ==
  \E n \in 0..MaxJobs :
    \E h \in [1..n -> InputJobs], cand \in InputCandidates :
      Entered(h,
              [c \in Calls |-> IF c = 1 THEN cand ELSE CandidateRecord(FALSE, <<>>)],
              [c \in Calls |-> IF c = 1 THEN FromTo(1, n) ELSE <<>>],
              {1})

\* two concurrent requests, each with its own candidate and job records
InitDisjoint ==
  \E n \in 0..MaxConcurrentJobs :
    \E k \in 0..n, h \in [1..n -> ConcurrentJobs],
       cand \in [Calls -> ConcurrentCandidates] :
      Entered(h, cand,
              [c \in Calls |-> IF c = 1 THEN FromTo(1, k) ELSE FromTo(k + 1, n)],
              Calls)

\* two concurrent calls handed the same job records
InitShared ==
  \E n \in 0..MaxSharedJobs :
    \E h \in [1..n -> ConcurrentJobs], cand \in [Calls -> ConcurrentCandidates] :
      Entered(h, cand, [c \in Calls |-> FromTo(1, n)], Calls)

Spec == Init /\ [][Next]_vars

SpecDisjoint == InitDisjoint /\ [][Next]_vars

SpecShared == InitShared /\ [][Next]_vars

(* ------------------------- properties checked -------------------------- *)

Done(c) == pc[c] = "done"

\* the number of positions of candidate.skills whose skill is in the job's
\* required_skills
Count(c, j) ==
  Cardinality({k \in DOMAIN candidate[c].skills :
                 candidate[c].skills[k] \in Range(heap[j].required_skills)})

Pos(c, j) == CHOOSE p \in DOMAIN jobs[c] : jobs[c][p] = j

JobsOf(c) == Range(jobs[c])

WellFormedJobs(c) == \A j \in JobsOf(c) : heap[j].has_required_skills

ScoresAreCounts(c) ==
  \A p \in DOMAIN result[c] :
    /\ result[c][p].match_score = Count(c, result[c][p].job)
    /\ result[c][p].match_score >= 1

ExactlyThePositiveJobs(c) ==
  /\ {result[c][p].job : p \in DOMAIN result[c]}
       = {j \in JobsOf(c) : Count(c, j) > 0}
  /\ \A p, q \in DOMAIN result[c] :
       result[c][p].job = result[c][q].job => p = q
  /\ Len(result[c]) <= Len(jobs[c])

StableDescending(c) ==
  \A p, q \in DOMAIN result[c] :
    p < q =>
      /\ result[c][p].match_score >= result[c][q].match_score
      /\ result[c][p].match_score = result[c][q].match_score
           => Pos(c, result[c][p].job) < Pos(c, result[c][q].job)

\* C1: every job in the result of match_jobs carries a match_score equal to
\* the number of positions of candidate.skills whose skill is a member of the
\* job's required_skills (a repeated candidate skill counts each time, a
\* repeated required skill counts nothing extra), and it is at least 1.
C1_ScoreIsMembershipCount == \A c \in Calls : Done(c) => ScoresAreCounts(c)

C1_Witness ==
  /\ Done(1)
  /\ candidate[1].skills = <<"python", "python">>
  /\ \E p \in DOMAIN result[1] :
       /\ heap[result[1][p].job].required_skills = <<"python", "python">>
       /\ result[1][p].match_score = 2

\* C2: for well-formed jobs the result holds exactly the input jobs whose
\* score is positive, each once per occurrence in the input, is never longer
\* than the input, and is empty when candidate.skills or the job list is
\* empty.
C2_ExactlyPositiveJobs ==
  \A c \in Calls :
    (Done(c) /\ WellFormedJobs(c)) =>
      /\ ExactlyThePositiveJobs(c)
      /\ (candidate[c].skills = <<>> \/ jobs[c] = <<>>) => result[c] = <<>>

C2_Witness ==
  /\ Done(1)
  /\ WellFormedJobs(1)
  /\ Len(jobs[1]) = 3
  /\ Len(result[1]) = 2
  /\ Count(1, 2) = 0
  /\ heap[1].required_skills = heap[3].required_skills

\* C3: the result is ordered by match_score non-increasing, and result jobs
\* with equal match_score keep their relative order of the input list.
C3_StableDescendingOrder == \A c \in Calls : Done(c) => StableDescending(c)

C3_Witness ==
  /\ Done(1)
  /\ Len(result[1]) = 3
  /\ <<result[1][1].job, result[1][2].job, result[1][3].job>> = <<3, 1, 2>>
  /\ result[1][1].match_score > result[1][2].match_score
  /\ result[1][2].match_score = result[1][3].match_score

Malformed(c) ==
  \/ ~candidate[c].has_skills
  \/ \E j \in JobsOf(c) : ~heap[j].has_required_skills

\* C4: match_jobs returns no result whenever the candidate has no skills
\* field or any job has no required_skills field, for every input, an empty
\* job list and an empty candidate skill list included.
C4_MalformedInputNeverReturns ==
  \A c \in Calls : Malformed(c) => pc[c] \notin {"return", "done"}

FrameFields(r) ==
  [has_required_skills |-> r.has_required_skills,
   required_skills |-> r.required_skills, title |-> r.title]

\* C5: a call changes nothing except the match_score field of job records:
\* no step changes the candidate record or its skills, the job list, or any
\* field of a job record other than match_score.
C5_OnlyMatchScoreChanges ==
  [][/\ candidate' = candidate
     /\ jobs' = jobs
     /\ DOMAIN heap' = DOMAIN heap
     /\ \A j \in DOMAIN heap : FrameFields(heap'[j]) = FrameFields(heap[j])]_vars

C5_Witness ==
  /\ Done(1)
  /\ calls[1] = 1
  /\ candidate[1].skills = <<"sql", "python">>
  /\ \E j \in JobsOf(1) :
       /\ ~heap0[1][j].has_match_score
       /\ heap[j].has_match_score
       /\ heap[j].required_skills = <<"sql", "python">>

\* C6: a second call with the same candidate and the same job records, left
\* as the first call returned them, yields the same jobs in the same order
\* with the same match_score values as the first call.
C6_SecondCallSameResult ==
  \A c \in Calls : (Done(c) /\ calls[c] >= 2) => result[c] = first[c]

C6_Witness ==
  /\ Done(1)
  /\ calls[1] = 2
  /\ Len(jobs[1]) = 3
  /\ Len(result[1]) = 2
  /\ \A p \in DOMAIN result[1] :
       /\ heap0[1][result[1][p].job].has_match_score
       /\ heap0[1][result[1][p].job].match_score = result[1][p].match_score
  /\ \E j \in JobsOf(1) :
       /\ Count(1, j) = 0
       /\ heap[j].has_match_score
       /\ heap[j].match_score = StaleScore

\* C7: concurrent calls with pairwise disjoint candidate and job records:
\* under every interleaving each call returns the result it returns when run
\* alone, and each job record ends with the match_score its own call
\* assigned.
C7_DisjointCallsIndependent ==
  \A c \in Calls :
    Done(c) =>
      /\ ScoresAreCounts(c)
      /\ ExactlyThePositiveJobs(c)
      /\ StableDescending(c)
      /\ \A j \in JobsOf(c) :
           Count(c, j) > 0 =>
             heap[j].has_match_score /\ heap[j].match_score = Count(c, j)

C7_Witness ==
  /\ Done(1) /\ Done(2)
  /\ candidate[1] # candidate[2]
  /\ Len(result[1]) = 2
  /\ result[1][1].job = 2
  /\ Len(result[2]) = 1
  /\ result[2][1].match_score # result[1][1].match_score

\* C8 as stated: after a successful return every job of the input list, the
\* jobs excluded for a score of 0 included, has match_score set to the score
\* computed for it.
C8_EveryJobAnnotated ==
  \A c \in Calls :
    Done(c) =>
      \A j \in JobsOf(c) :
        heap[j].has_match_score /\ heap[j].match_score = Count(c, j)

\* C8 amended: after a successful return every job of the input list with a
\* positive score has match_score set to that score, and every job with score
\* 0 is left as it was before the call (match_score absent or stale).
C8_PositiveJobsAnnotated ==
  \A c \in Calls :
    Done(c) =>
      \A j \in JobsOf(c) :
        IF Count(c, j) > 0
        THEN heap[j].has_match_score /\ heap[j].match_score = Count(c, j)
        ELSE heap[j] = heap0[c][j]

C8_Witness ==
  /\ Done(1)
  /\ calls[1] = 1
  /\ Len(jobs[1]) = 3
  /\ Count(1, 1) = 0 /\ ~heap[1].has_match_score
  /\ Count(1, 2) > 0
  /\ Count(1, 3) = 0 /\ heap[3].has_match_score
  /\ heap[3].has_required_skills

\* C9: two concurrent calls that share a job record race on match_score: the
\* match_score a call returns for a job is the one last written to the
\* record, by whichever call wrote it, so after a write by the other call it
\* is the other candidate's score (the witness reaches a return with a score
\* that is not the call's own and an order that is not descending in the
\* scores that call computed).
C9_ReturnedScoreIsLastWritten ==
  [][\A c \in Calls :
       (pc[c] = "return" /\ pc'[c] = "done") =>
         \A p \in DOMAIN result'[c] :
           /\ writer[result'[c][p].job] \in Calls
           /\ result'[c][p].match_score
                = Count(writer[result'[c][p].job], result'[c][p].job)]_vars

C9_Witness ==
  \E c \in Calls :
    /\ Done(c)
    /\ \E p \in DOMAIN result[c] :
         result[c][p].match_score # Count(c, result[c][p].job)
    /\ \E p, q \in DOMAIN result[c] :
         p < q /\ Count(c, result[c][p].job) < Count(c, result[c][q].job)

FailedAtJob(c) ==
  /\ pc[c] = "KeyError"
  /\ candidate[c].has_skills
  /\ candidate[c].skills # <<>>

\* C10: a call that fails at the first job lacking required_skills (with a
\* non-empty candidate.skills) is not atomic: every earlier job with positive
\* score has had match_score written, the failing job and every later job are
\* unmodified, and no result is returned.
C10_FailureIsNotAtomic ==
  \A c \in Calls :
    FailedAtJob(c) =>
      /\ ~heap[jobs[c][i[c]]].has_required_skills
      /\ \A p \in 1..(i[c] - 1) :
           /\ heap[jobs[c][p]].has_required_skills
           /\ Count(c, jobs[c][p]) > 0 =>
                /\ heap[jobs[c][p]].has_match_score
                /\ heap[jobs[c][p]].match_score = Count(c, jobs[c][p])
      /\ \A p \in i[c]..Len(jobs[c]) : heap[jobs[c][p]] = heap0[c][jobs[c][p]]
      /\ result[c] = <<>>

C10_Witness ==
  /\ FailedAtJob(1)
  /\ i[1] = 2
  /\ Len(jobs[1]) = 3
  /\ Count(1, 1) > 0
  /\ heap[1] # heap0[1][1]
  /\ heap[3].has_required_skills /\ Count(1, 3) > 0

====
